---- MODULE Spec2Model ----
(***************************************************************************)
(* Model of the heat-solver result scripts:                                *)
(*   src/heat-solver-main/plot_results.py  (impl = "main")                 *)
(*   src/plot_results.py                   (impl = "legacy")               *)
(* Both define plot_results (single dataset) and compare_methods (several  *)
(* datasets).  A run is one invocation of one of the two functions of one  *)
(* of the two files on the CSV input(s) chosen in Init.                    *)
(*                                                                         *)
(* Floating point values are modelled as tagged records                    *)
(*   [k |-> "num", v |-> i]   the finite value i * 5e-21                   *)
(*   [k |-> "inf", v |-> s]   s = 1: +inf, s = -1: -inf                    *)
(*   [k |-> "nan", v |-> 0]   not-a-number (pandas "missing")              *)
(*   [k |-> "text", v |-> 0]  a CSV cell that does not parse as a number   *)
(* so that epsilon = 1e-20 is the integer 2 and errors below, at and above *)
(* epsilon are all representable.                                          *)
(* Aggregates are exact: a mean is the pair sum/count (not reduced), and   *)
(* the L2 norm sqrt(mean(e^2)) is kept as its radicand with kind "sqrt".   *)
(***************************************************************************)
EXTENDS Integers, Sequences, FiniteSets, TLC

\* ---------------------------------------------------------------- bounds
MaxRows == 2
MaxTimes == 120
MaxSources == 5

\* ------------------------------------------------------ program constants
MaxSnapshots == 6
TargetRows == 50
Epsilon == 2
NumColors == 4

Impls == {"main", "legacy"}

\* ----------------------------------------------------------------- values
Num(i) == [k |-> "num", v |-> i]
NaN == [k |-> "nan", v |-> 0]
PosInf == [k |-> "inf", v |-> 1]
Text == [k |-> "text", v |-> 0]
Absent == [k |-> "absent", v |-> 0]

Rat(n, d) == [k |-> "num", n |-> n, d |-> d]
Sqrt(n, d) == [k |-> "sqrt", n |-> n, d |-> d]
NaNScalar == [k |-> "nan", n |-> 0, d |-> 1]
NoScalar == [k |-> "unset", n |-> 0, d |-> 1]

\* pd.to_numeric(col, errors="coerce"): a cell that does not parse becomes NaN
to_numeric(c) == IF c.k = "text" THEN NaN ELSE c

\* IEEE subtraction a - b
Sub(a, b) ==
  IF a.k = "nan" \/ b.k = "nan" THEN NaN
  ELSE IF a.k = "inf" /\ b.k = "inf" THEN (IF a.v = b.v THEN NaN ELSE a)
  ELSE IF a.k = "inf" THEN a
  ELSE IF b.k = "inf" THEN [k |-> "inf", v |-> 0 - b.v]
  ELSE Num(a.v - b.v)

\* np.abs
np_abs(a) ==
  IF a.k = "num" THEN Num(IF a.v < 0 THEN 0 - a.v ELSE a.v)
  ELSE IF a.k = "inf" THEN PosInf
  ELSE a

\* df.replace([np.inf, -np.inf], np.nan)
replace_inf(a) == IF a.k = "inf" THEN NaN ELSE a

\* np.isfinite
isfinite(a) == a.k = "num"

\* Series.fillna(0.0)
fillna0(a) == IF a.k = "nan" THEN Num(0) ELSE a

\* np.maximum(e, epsilon) on a finite e
np_maximum(a, eps) == IF a.v < eps THEN Num(eps) ELSE a

\* ------------------------------------------------------------- sequences
MinOfSet(S) == CHOOSE a \in S : \A b \in S : a <= b
MaxOfSet(S) == CHOOSE a \in S : \A b \in S : b <= a

\* sorted(S) for a finite set of numbers: its elements in ascending order
SetToSortedSeq(S) ==
  IF S = {} THEN <<>>
  ELSE LET lo == MinOfSet(S)
           hi == MaxOfSet(S)
       IN SelectSeq([i \in 1..(hi - lo + 1) |-> lo + i - 1], LAMBDA a : a \in S)

Col(rows, f) == [i \in 1..Len(rows) |-> rows[i][f]]
Range(s) == {s[i] : i \in 1..Len(s)}

\* sorted(df[col].unique())
sorted_unique(rows, f) == SetToSortedSeq({rows[i][f] : i \in 1..Len(rows)})

\* df[df["t"] == t]
where_t(rows, t) == SelectSeq(rows, LAMBDA r : r.t = t)

RECURSIVE ConcatByX(_, _)
ConcatByX(rows, xs) ==
  IF xs = <<>> THEN <<>>
  ELSE SelectSeq(rows, LAMBDA r : r.x = Head(xs)) \o ConcatByX(rows, Tail(xs))

\* df.sort_values("x"): ascending by x; ties keep their file order (the
\* default sort falls back to insertion sort on frames this small)
sort_values_x(rows) == ConcatByX(rows, sorted_unique(rows, "x"))

RECURSIVE SumSeq(_)
SumSeq(s) == IF s = <<>> THEN 0 ELSE Head(s) + SumSeq(Tail(s))

\* np.linspace(..., endpoint=False): the last point falls short of n - 1
linspace_no_endpoint(n, k) ==
  IF k = 0 THEN <<>>
  ELSE [i \in 1..k |-> ((i - 1) * (n - 1)) \div k]

\* np.linspace(0, n - 1, k, dtype=int): k evenly spaced points, truncated
linspace_int(n, k) ==
  IF k = 0 THEN <<>>
  ELSE IF k = 1 THEN <<0>>
  ELSE [i \in 1..k |-> ((i - 1) * (n - 1)) \div (k - 1)]

\* seq[::step]: the elements at 0-based positions 0, step, 2*step, ...
SliceIdx(n, step) == {i \in 1..n : (i - 1) % step = 0}
slice_step(s, step) ==
  LET idx == SetToSortedSeq(SliceIdx(Len(s), step))
  IN [j \in 1..Len(idx) |-> s[idx[j]]]

\* ------------------------------------------------------------ statistics
\* values of a column that are finite, as integers
FiniteVals(col) == LET f == SelectSeq(col, isfinite) IN [i \in 1..Len(f) |-> f[i].v]
Squares(s) == [i \in 1..Len(s) |-> s[i] * s[i]]

\* np.sqrt(np.mean(e**2)), np.max(e), np.mean(e) over finite values e
\* (a pandas reduction over no values is NaN)
l2_of(vals) == IF vals = <<>> THEN NaNScalar ELSE Sqrt(SumSeq(Squares(vals)), Len(vals))
linf_of(vals) == IF vals = <<>> THEN NaNScalar ELSE Rat(MaxOfSet(Range(vals)), 1)
mean_of(vals) == IF vals = <<>> THEN NaNScalar ELSE Rat(SumSeq(vals), Len(vals))

\* ----------------------------------------------------------------- inputs
\* One CSV file: its data rows in file order, and its "error" column, which
\* is either missing (Absent) or holds the same stored value on every row.
TVals == {1, 2}
XVals == {1, 2}
NumericCells == {Num(0), Num(1), Num(3), Text, PosInf}
ExactCells == {Num(0), Text}
ErrorCols == {Absent, Num(0), Num(5)}

RawRows == [t : TVals, x : XVals, u_numeric : NumericCells, u_exact : ExactCells]
RowSeqs == UNION {[1..n -> RawRows] : n \in 0..MaxRows}
SmallCsvs == [rows : RowSeqs, error : ErrorCols]

\* a regular grid of n time layers (written latest first) and GridCols positions
GridCols == 2
GridCsv(n) ==
  [rows |-> [i \in 1..(n * GridCols) |->
               [t |-> n - ((i - 1) \div GridCols),
                x |-> ((i - 1) % GridCols) + 1,
                u_numeric |-> Num(3 * (i % 2)),
                u_exact |-> Num(0)]],
   error |-> Num(0)]
GridCsvs == {GridCsv(n) : n \in 3..MaxTimes}

NoCsv == [rows |-> <<>>, error |-> Absent]

\* the files handed to compare_methods: one data row each, or missing
CompareCsvs ==
  {[rows |-> <<[t |-> 1, x |-> 1, u_numeric |-> c, u_exact |-> Num(0)]>>,
    error |-> e] : c \in {Num(0), Num(3), Text}, e \in {Num(0)}} \cup
  {[rows |-> <<[t |-> 1, x |-> 1, u_numeric |-> Num(3), u_exact |-> Num(0)]>>,
    error |-> Absent]}
Sources == {[exists |-> FALSE, csv |-> NoCsv]} \cup
           {[exists |-> TRUE, csv |-> c] : c \in CompareCsvs}
SourceLists == UNION {[1..n -> Sources] : n \in 1..MaxSources}

\* ------------------------------------------------------------------ state
VARIABLES
  impl,             \* which of the two files runs
  mode,             \* "single": plot_results, "compare": compare_methods
  csv_exists, csv,  \* plot_results' input file
  sources,          \* compare_methods' input files, in argument order
  pc,               \* position in the running function
  exc,              \* the exception that ended the run, "none" otherwise
  df,               \* the loaded DataFrame (rows in file order)
  times,            \* sorted unique t
  snapshot_indices, \* graph 1: indices into times
  evolution,        \* graph 1: one line per selected time
  final_data,       \* graph 2: the final-time snapshot
  x_valid, err_valid, \* graph 3: the rows with a finite error
  err_panel,        \* graph 3: what is drawn on the log axis
  x_vals, t_vals_subset, u_matrix, \* graph 4
  summary,          \* the reported l2, linf, mean
  idx,              \* compare_methods: loop index (0-based)
  entries,          \* compare_methods: one entry per plotted method
  warnings,         \* compare_methods: indices reported as missing
  analytic          \* compare_methods: the analytical curve

vars == <<impl, mode, csv_exists, csv, sources, pc, exc, df, times,
          snapshot_indices, evolution, final_data, x_valid, err_valid,
          err_panel, x_vals, t_vals_subset, u_matrix, summary, idx, entries,
          warnings, analytic>>

inputs == <<impl, mode, csv_exists, csv, sources>>
singleOut == <<df, times, snapshot_indices, evolution, final_data, x_valid,
               err_valid, err_panel, x_vals, t_vals_subset, u_matrix, summary>>
compareOut == <<idx, entries, warnings, analytic>>

NoPanel == [kind |-> "none", x |-> <<>>, y |-> <<>>]
NoSummary == [l2 |-> NoScalar, linf |-> NoScalar, mean |-> NoScalar]
NoCurve == [drawn |-> FALSE, x |-> <<>>, u |-> <<>>]

InitOutputs ==
  /\ pc = "start" /\ exc = "none"
  /\ df = <<>> /\ times = <<>> /\ snapshot_indices = <<>> /\ evolution = <<>>
  /\ final_data = <<>> /\ x_valid = <<>> /\ err_valid = <<>>
  /\ err_panel = NoPanel
  /\ x_vals = <<>> /\ t_vals_subset = <<>> /\ u_matrix = <<>>
  /\ summary = NoSummary
  /\ idx = 0 /\ entries = <<>> /\ warnings = <<>> /\ analytic = NoCurve

InitSingle ==
  /\ mode = "single"
  /\ impl \in Impls
  /\ \/ csv_exists = TRUE /\ csv \in SmallCsvs \cup GridCsvs
     \/ csv_exists = FALSE /\ csv = NoCsv
  /\ sources = <<>>

InitCompare ==
  /\ mode = "compare"
  /\ impl \in Impls
  /\ csv_exists = FALSE /\ csv = NoCsv
  /\ sources \in SourceLists

Init == (InitSingle \/ InitCompare) /\ InitOutputs

\* ---------------------------------------------------------------- loading
\* main 18-19: both value columns are coerced
coerce(row) ==
  [row EXCEPT !.u_numeric = to_numeric(@), !.u_exact = to_numeric(@)]

\* an error column whose missing values are filled with zero
recompute_error_fillna(row) == fillna0(np_abs(Sub(row.u_numeric, row.u_exact)))

\* main 21: df["error"] = np.abs(df["u_numeric"] - df["u_exact"])
recompute_error(row) == np_abs(Sub(row.u_numeric, row.u_exact))

\* main 22: every infinite cell of the frame becomes NaN
replace_row(row) ==
  [row EXCEPT !.u_numeric = replace_inf(@), !.u_exact = replace_inf(@),
              !.error = replace_inf(@)]

\* pd.read_csv: the rows as written, with the stored error column
read_csv(file) ==
  [i \in 1..Len(file.rows) |->
     [t |-> file.rows[i].t, x |-> file.rows[i].x,
      u_numeric |-> file.rows[i].u_numeric, u_exact |-> file.rows[i].u_exact,
      error |-> file.error]]

\* main 15-22 and 206-211; legacy 15 and 130 (no coercion, stored error kept)
load(im, file) ==
  LET raw == read_csv(file)
  IN IF im = "main"
     THEN [i \in 1..Len(raw) |->
             LET c == coerce(raw[i])
             IN replace_row([c EXCEPT !.error = recompute_error(c)])]
     ELSE raw

\* ----------------------------------------------------------- plot_results
Min(a, b) == IF a < b THEN a ELSE b
Max(a, b) == IF a > b THEN a ELSE b

\* the snapshot at time t: main sorts it by x; legacy graph 1 does not
snapshot(rows, t) == sort_values_x(where_t(rows, t))

\* lines 10-25 (legacy 10-18): existence check, read, coercion, times
PlotLoad ==
  /\ mode = "single" /\ pc = "start"
  /\ IF csv_exists
     THEN /\ df' = load(impl, csv)
          /\ times' = sorted_unique(df', "t")
          /\ pc' = "loaded"
     ELSE /\ pc' = "notfound"
          /\ UNCHANGED <<df, times>>
  /\ UNCHANGED <<inputs, exc, snapshot_indices, evolution, final_data, x_valid,
                 err_valid, err_panel, x_vals, t_vals_subset, u_matrix,
                 summary, compareOut>>

\* line 32-33: the indices of the snapshots drawn in graph 1
evolution_indices(n) == linspace_int(n, Min(MaxSnapshots, n))

\* lines 32-47 (legacy 25-36): graph 1
PlotEvolution ==
  /\ mode = "single" /\ pc = "loaded"
  /\ snapshot_indices' = evolution_indices(Len(times))
  /\ evolution' =
       [i \in 1..Len(snapshot_indices') |->
          LET t == times[snapshot_indices'[i] + 1]
              data == IF impl = "main" THEN snapshot(df, t) ELSE where_t(df, t)
          IN [t |-> t, x |-> Col(data, "x"), u |-> Col(data, "u_numeric")]]
  /\ pc' = "evolution"
  /\ UNCHANGED <<inputs, exc, df, times, final_data, x_valid, err_valid,
                 err_panel, x_vals, t_vals_subset, u_matrix, summary,
                 compareOut>>

\* lines 59-60 (legacy 47-48): times[-1] of an empty list raises IndexError
PlotFinal ==
  /\ mode = "single" /\ pc = "evolution"
  /\ IF times = <<>>
     THEN /\ exc' = "IndexError" /\ pc' = "raised"
          /\ UNCHANGED final_data
     ELSE /\ final_data' = snapshot(df, times[Len(times)])
          /\ pc' = "final"
          /\ UNCHANGED exc
  /\ UNCHANGED <<inputs, df, times, snapshot_indices, evolution, x_valid,
                 err_valid, err_panel, x_vals, t_vals_subset, u_matrix,
                 summary, compareOut>>

\* lines 86-88: the rows of a snapshot whose error is finite
valid_rows(rows) == SelectSeq(rows, LAMBDA r : isfinite(r.error))

\* lines 92-93: the values drawn on the log axis
floor_for_log(errs) == [i \in 1..Len(errs) |-> np_maximum(errs[i], Epsilon)]

\* lines 86-119: graph 3 of main; legacy 63-69 draws the stored column
PlotErrorPanel ==
  /\ mode = "single" /\ pc = "final"
  /\ IF impl = "main"
     THEN LET v == valid_rows(final_data)
          IN /\ x_valid' = Col(v, "x")
             /\ err_valid' = Col(v, "error")
             /\ err_panel' =
                  IF Len(v) > 0
                  THEN [kind |-> "plot", x |-> x_valid',
                        y |-> floor_for_log(err_valid')]
                  ELSE [kind |-> "text", x |-> <<>>, y |-> <<>>]
             /\ pc' = "errpanel"
             /\ UNCHANGED exc
     ELSE IF csv.error = Absent
     THEN /\ exc' = "KeyError" /\ pc' = "raised"
          /\ UNCHANGED <<x_valid, err_valid, err_panel>>
     ELSE /\ err_panel' = [kind |-> "plot", x |-> Col(final_data, "x"),
                           y |-> Col(final_data, "error")]
          /\ pc' = "errpanel"
          /\ UNCHANGED <<exc, x_valid, err_valid>>
  /\ UNCHANGED <<inputs, df, times, snapshot_indices, evolution, final_data,
                 x_vals, t_vals_subset, u_matrix, summary, compareOut>>

\* a stride computed against twice the target row count
heatmap_step_doubled(n) == Max(1, n \div (2 * TargetRows))

\* line 134: step = max(1, len(t_vals) // 50)
heatmap_step(n) == Max(1, n \div TargetRows)

\* line 135: t_vals[::step]
heatmap_times(t_vals) == slice_step(t_vals, heatmap_step(Len(t_vals)))

\* lines 140-141 (legacy 83-84): the values written as the row of time t
heatmap_row(im, rows, t) ==
  LET u == Col(snapshot(rows, t), "u_numeric")
  IN IF im = "main" THEN [j \in 1..Len(u) |-> fillna0(to_numeric(u[j]))] ELSE u

\* line 142: u_matrix[i, :] = row.values takes a row of the matrix' width,
\* broadcasts a row of one value, and raises ValueError otherwise (also when
\* a value is text, which only legacy can hand over)
assignable(row, ncols) ==
  /\ Len(row) = ncols \/ Len(row) = 1
  /\ \A j \in 1..Len(row) : row[j].k # "text"
assigned(row, ncols) ==
  [j \in 1..ncols |-> IF Len(row) = ncols THEN row[j] ELSE row[1]]

\* lines 131-142 (legacy 74-84): graph 4
PlotHeatmap ==
  /\ mode = "single" /\ pc = "errpanel"
  /\ x_vals' = sorted_unique(df, "x")
  /\ t_vals_subset' = heatmap_times(sorted_unique(df, "t"))
  /\ LET ncols == Len(x_vals')
         rows == [i \in 1..Len(t_vals_subset') |->
                    heatmap_row(impl, df, t_vals_subset'[i])]
     IN IF \A i \in 1..Len(rows) : assignable(rows[i], ncols)
        THEN /\ u_matrix' = [i \in 1..Len(rows) |-> assigned(rows[i], ncols)]
             /\ pc' = "heatmap"
             /\ UNCHANGED exc
        ELSE /\ exc' = "ValueError" /\ pc' = "raised"
             /\ UNCHANGED u_matrix
  /\ UNCHANGED <<inputs, df, times, snapshot_indices, evolution, final_data,
                 x_valid, err_valid, err_panel, summary, compareOut>>

\* lines 160-165, 190 (legacy 95-96, 114): the values the statistics use
stat_values(im, snap, valid) ==
  IF im = "main" THEN FiniteVals(valid) ELSE FiniteVals(Col(snap, "error"))

error_summary(vals) ==
  [l2 |-> l2_of(vals), linf |-> linf_of(vals), mean |-> mean_of(vals)]

\* lines 160-191 (legacy 95-115): the reported statistics
PlotStats ==
  /\ mode = "single" /\ pc = "heatmap"
  /\ summary' = error_summary(stat_values(impl, final_data, err_valid))
  /\ pc' = "done"
  /\ UNCHANGED <<inputs, exc, df, times, snapshot_indices, evolution,
                 final_data, x_valid, err_valid, err_panel, x_vals,
                 t_vals_subset, u_matrix, compareOut>>

\* -------------------------------------------------------- compare_methods
\* main 213-214 (legacy 131-132): the snapshot at df["t"].max()
final_snapshot(rows) == snapshot(rows, MaxOfSet(Range(Col(rows, "t"))))

\* main 216-231: the series and norms of one method; the error series is
\* drawn on the log axis as it is
entry_main(i, rows) ==
  LET v == valid_rows(final_snapshot(rows))
      e == Col(v, "error")
  IN [idx |-> i, color |-> i, x |-> Col(v, "x"), u |-> Col(v, "u_numeric"),
      err |-> e, l2 |-> l2_of(FiniteVals(e)), linf |-> linf_of(FiniteVals(e))]

\* legacy 131-148: the same from the stored error column, colours cycling
entry_legacy(i, rows) ==
  LET f == final_snapshot(rows)
      e == Col(f, "error")
  IN [idx |-> i, color |-> i % NumColors, x |-> Col(f, "x"),
      u |-> Col(f, "u_numeric"),
      err |-> e, l2 |-> l2_of(FiniteVals(e)), linf |-> linf_of(FiniteVals(e))]

\* main 201-231 (legacy 125-148): one iteration of the loop over the files
CompareIter ==
  /\ mode = "compare" /\ pc \in {"start", "loop"}
  /\ idx < Len(sources)
  /\ LET s == sources[idx + 1]
     IN IF ~s.exists
        THEN /\ warnings' = Append(warnings, idx)
             /\ idx' = idx + 1 /\ pc' = "loop"
             /\ UNCHANGED <<entries, exc>>
        ELSE IF impl = "main" /\ idx >= NumColors
        THEN /\ exc' = "IndexError" /\ pc' = "raised"
             /\ UNCHANGED <<idx, entries, warnings>>
        ELSE IF impl = "legacy" /\ s.csv.error = Absent
        THEN /\ exc' = "KeyError" /\ pc' = "raised"
             /\ UNCHANGED <<idx, entries, warnings>>
        ELSE /\ entries' = Append(entries,
                             IF impl = "main"
                             THEN entry_main(idx, load(impl, s.csv))
                             ELSE entry_legacy(idx, load(impl, s.csv)))
             /\ idx' = idx + 1 /\ pc' = "loop"
             /\ UNCHANGED <<warnings, exc>>
  /\ UNCHANGED <<inputs, singleOut, analytic>>

\* main 234-237 (legacy 151-153): the curve read again from csv_files[0]
analytic_curve(im, file) ==
  LET raw == read_csv(file)
      d == IF im = "main"
           THEN [i \in 1..Len(raw) |-> [raw[i] EXCEPT !.u_exact = to_numeric(@)]]
           ELSE raw
      f == final_snapshot(d)
  IN [drawn |-> TRUE, x |-> Col(f, "x"), u |-> Col(f, "u_exact")]

\* main 233-240 (legacy 150-155): pd.read_csv(csv_files[0]) raises
\* FileNotFoundError when that file is missing
CompareAnalytic ==
  /\ mode = "compare" /\ pc \in {"start", "loop"}
  /\ idx = Len(sources)
  /\ IF sources[1].exists
     THEN /\ analytic' = analytic_curve(impl, sources[1].csv)
          /\ pc' = "done"
          /\ UNCHANGED exc
     ELSE /\ exc' = "FileNotFoundError" /\ pc' = "raised"
          /\ UNCHANGED analytic
  /\ UNCHANGED <<inputs, singleOut, idx, entries, warnings>>

Next ==
  \/ PlotLoad
  \/ PlotEvolution
  \/ PlotFinal
  \/ PlotErrorPanel
  \/ PlotHeatmap
  \/ PlotStats
  \/ CompareIter
  \/ CompareAnalytic

Spec == Init /\ [][Next]_vars

\* ------------------------------------------------- what the claims speak of
AbsDiff(a, b) == IF a < b THEN b - a ELSE a - b
CeilDiv(n, d) == (n + d - 1) \div d

\* the rows of a file at its largest time value, in file order
FinalRows(file) ==
  SelectSeq(file.rows, LAMBDA r : \A i \in 1..Len(file.rows) : file.rows[i].t <= r.t)

\* a row whose two value cells are both finite numbers
ValidRow(r) == r.u_numeric.k = "num" /\ r.u_exact.k = "num"

\* |u_numeric - u_exact| over the valid rows of the final snapshot
ValidErrors(file) ==
  LET v == SelectSeq(FinalRows(file), ValidRow)
  IN [i \in 1..Len(v) |-> AbsDiff(v[i].u_numeric.v, v[i].u_exact.v)]

\* l2 = sqrt(mean(e^2)), linf = max(e), mean = mean(e), NaN over no values
ExpectedL2(e) == IF e = <<>> THEN NaNScalar ELSE Sqrt(SumSeq(Squares(e)), Len(e))
ExpectedLinf(e) == IF e = <<>> THEN NaNScalar ELSE Rat(MaxOfSet(Range(e)), 1)
ExpectedMean(e) == IF e = <<>> THEN NaNScalar ELSE Rat(SumSeq(e), Len(e))
ExpectedSummary(e) ==
  [l2 |-> ExpectedL2(e), linf |-> ExpectedLinf(e), mean |-> ExpectedMean(e)]

\* every time layer holds exactly one record per position of the file
Regular(rows) ==
  LET T == {rows[i].t : i \in 1..Len(rows)}
      X == {rows[i].x : i \in 1..Len(rows)}
      P == {<<rows[i].t, rows[i].x>> : i \in 1..Len(rows)}
  IN Cardinality(P) = Len(rows) /\ Len(rows) = Cardinality(T) * Cardinality(X)

Existing == {i \in 1..Len(sources) : sources[i].exists}
Missing == {i \in 1..Len(sources) : ~sources[i].exists}
EntryOf(i) == {k \in 1..Len(entries) : entries[k].idx = i - 1}

\* every file that exists carries the error column (so that legacy can read it)
WellFormedSources == \A i \in Existing : sources[i].csv.error # Absent

\* C1: compare_methods never aborts, whichever sources are missing (the
\* first one included): a missing source gives one warning and no entry, an
\* existing source gives exactly one entry.  Stated for files that carry the
\* error column, so that a failure is due to a missing source alone.
C1_CompareNeverAborts ==
  (mode = "compare" /\ WellFormedSources) =>
    /\ exc = "none"
    /\ pc = "done" =>
         /\ \A i \in Existing : Cardinality(EntryOf(i)) = 1
         /\ \A i \in Missing : EntryOf(i) = {}
         /\ Range(warnings) = {i - 1 : i \in Missing}
         /\ Len(entries) = Cardinality(Existing)

\* C2: once the loop over the sources is over and at least one source was
\* loaded, exactly one analytical curve is drawn, and it is the final-time
\* u_exact series of the first source that exists.
C2_AnalyticFromFirstLoaded ==
  (mode = "compare" /\ pc \in {"done", "raised"} /\ idx = Len(sources)
     /\ Existing # {}) =>
    /\ analytic.drawn
    /\ analytic = analytic_curve(impl, sources[MinOfSet(Existing)].csv)

HeatmapBuilt == mode = "single" /\ pc \in {"heatmap", "done"}
Stride(n) == IF n \div TargetRows >= 1 THEN n \div TargetRows ELSE 1

HeatmapShape(cap) ==
  LET n == Cardinality({df[i].t : i \in 1..Len(df)})
      nx == Cardinality({df[i].x : i \in 1..Len(df)})
  IN /\ Len(u_matrix) = CeilDiv(n, Stride(n))
     /\ Len(u_matrix) <= cap
     /\ \A i \in 1..Len(u_matrix) : Len(u_matrix[i]) = nx
     /\ Len(t_vals_subset) = Len(u_matrix)
     /\ \A i \in 1..Len(df) : t_vals_subset[1] <= df[i].t

\* C3 as stated: for n >= 1 unique times the heatmap has ceil(n / stride)
\* rows, never more than the cap of 50, one column per unique position, and
\* row 0 is the minimum time.
C3_RowsWithinCap == HeatmapBuilt => HeatmapShape(TargetRows)

\* C3 as amended: the same, the row count being at most 2 * 50 - 1 = 99, and
\* at most 50 whenever there are at most 50 unique times.
C3_RowsBelowTwiceCap ==
  HeatmapBuilt =>
    /\ HeatmapShape(2 * TargetRows - 1)
    /\ Len(times) <= TargetRows => Len(u_matrix) <= TargetRows

\* the heatmap of a dataset with more than 100 time layers, stride 2, has
\* more rows than the cap
C3_Witness ==
  /\ HeatmapBuilt /\ pc = "done"
  /\ Len(times) > 2 * TargetRows
  /\ Len(u_matrix) > TargetRows

\* C5: a file with a header and no records makes plot_results (main) degrade
\* without raising.
C5_EmptyDegrades ==
  (mode = "single" /\ impl = "main" /\ csv_exists /\ csv.rows = <<>>) =>
    exc = "none"

EvolutionDrawn == mode = "single" /\ pc \notin {"start", "loaded", "notfound"}

\* C6: over n >= 1 unique times the evolution indices are strictly
\* increasing (so pairwise distinct), at most 6, lie in 0..n-1, include 0 and
\* n-1 when n >= 2, and are all of 0..n-1 when n < 6.
C6_EvolutionIndices ==
  (EvolutionDrawn /\ Len(times) >= 1) =>
    LET n == Len(times)
        s == snapshot_indices
    IN /\ Len(s) <= MaxSnapshots /\ Len(s) >= 1
       /\ \A i \in 1..Len(s) : s[i] \in 0..(n - 1)
       /\ \A i \in 1..(Len(s) - 1) : s[i] < s[i + 1]
       /\ n >= 2 => s[1] = 0 /\ s[Len(s)] = n - 1
       /\ n < MaxSnapshots => s = [i \in 1..n |-> i - 1]
       /\ Len(evolution) = Len(s)
       /\ \A i \in 1..Len(s) : evolution[i].t = times[s[i] + 1]

\* six snapshots drawn from more than six layers whose spacing is not whole
C6_Witness ==
  /\ EvolutionDrawn /\ pc = "done"
  /\ Len(times) > MaxSnapshots
  /\ (Len(times) - 1) % (MaxSnapshots - 1) # 0
  /\ Len(snapshot_indices) = MaxSnapshots

\* C7: in plot_results (main) a row with a non-numeric or infinite value
\* cell stays in the frame with an invalid (NaN) error, a valid row carries
\* |u_numeric - u_exact|, coercion never raises (a non-empty regular grid
\* runs to the end), and the reported l2, linf and mean are those of the
\* valid rows of the final snapshot alone.
C7_InvalidRowsExcluded ==
  (mode = "single" /\ impl = "main" /\ csv_exists) =>
    /\ pc \notin {"start", "notfound"} =>
         /\ Len(df) = Len(csv.rows)
         /\ \A i \in 1..Len(df) :
              df[i].error =
                IF ValidRow(csv.rows[i])
                THEN Num(AbsDiff(csv.rows[i].u_numeric.v, csv.rows[i].u_exact.v))
                ELSE NaN
    /\ exc # "none" => (csv.rows = <<>> \/ ~Regular(csv.rows))
    /\ pc = "done" => summary = ExpectedSummary(ValidErrors(csv))

\* a finished run whose final snapshot has a text cell in one row and a
\* non-zero error in another
C7_Witness ==
  /\ mode = "single" /\ impl = "main" /\ pc = "done"
  /\ \E i, j \in 1..Len(final_data) :
       /\ final_data[i].error = NaN
       /\ final_data[j].error = Num(3)
  /\ \E i \in 1..Len(csv.rows) : csv.rows[i].u_numeric = Text
  /\ summary.mean = Rat(3, 1)

\* C8: the reported errors do not depend on the stored error column, neither
\* on its content nor on its presence: plot_results reports the summary of
\* |u_numeric - u_exact|, and so does every entry of compare_methods.
C8_ErrorColumnIgnored ==
  /\ exc # "KeyError"
  /\ (mode = "single" /\ pc = "done") => summary = ExpectedSummary(ValidErrors(csv))
  /\ mode = "compare" =>
       \A k \in 1..Len(entries) :
         LET e == ValidErrors(sources[entries[k].idx + 1].csv)
         IN /\ entries[k].l2 = ExpectedL2(e)
            /\ entries[k].linf = ExpectedLinf(e)
            /\ entries[k].err = [i \in 1..Len(e) |-> Num(e[i])]

\* C9: in main every error drawn on a log axis is floored at epsilon, in the
\* single-dataset panel and in the comparison overlay, and the summary uses
\* the unfloored errors.
C9_LogAxisFloored ==
  impl = "main" =>
    /\ (mode = "single" /\ err_panel.kind = "plot") =>
         /\ Len(err_panel.y) = Len(err_valid)
         /\ \A i \in 1..Len(err_panel.y) :
              /\ err_panel.y[i].v >= Epsilon
              /\ err_valid[i].v >= Epsilon => err_panel.y[i] = err_valid[i]
              /\ err_valid[i].v = 0 => err_panel.y[i] = Num(Epsilon)
    /\ (mode = "single" /\ pc = "done") => summary = ExpectedSummary(ValidErrors(csv))
    /\ mode = "compare" =>
         \A k \in 1..Len(entries) : \A i \in 1..Len(entries[k].err) :
           entries[k].err[i].v >= Epsilon

\* C4: in main a final snapshot without any valid error gives NaN for l2,
\* linf and mean and the "no valid data" text instead of an empty series, in
\* plot_results and for each method of compare_methods.
C4_NoValidData ==
  impl = "main" =>
    /\ (mode = "single" /\ csv_exists /\ csv.rows # <<>> /\ ValidErrors(csv) = <<>>) =>
         /\ pc \in {"errpanel", "heatmap", "done"} => err_panel.kind = "text"
         /\ pc = "done" => summary = [l2 |-> NaNScalar, linf |-> NaNScalar,
                                      mean |-> NaNScalar]
    /\ mode = "compare" =>
         \A k \in 1..Len(entries) :
           ValidErrors(sources[entries[k].idx + 1].csv) = <<>> =>
             /\ entries[k].l2 = NaNScalar /\ entries[k].linf = NaNScalar
             /\ entries[k].err # <<>>

HeatmapAttempted == mode = "single" /\ x_vals # <<>>

\* C10: for every time selected for the heatmap the snapshot holds exactly
\* one record per unique position of the dataset, so the row is written
\* without failure and cell (i, j) is the value (invalid: 0) of the record at
\* the i-th selected time and the j-th position.
C10_HeatmapRowsWellFormed ==
  HeatmapAttempted =>
    /\ \A i \in 1..Len(t_vals_subset) : \A j \in 1..Len(x_vals) :
         Cardinality({k \in 1..Len(df) :
                        df[k].t = t_vals_subset[i] /\ df[k].x = x_vals[j]}) = 1
    /\ pc # "raised"
    /\ pc \in {"heatmap", "done"} =>
         \A i \in 1..Len(t_vals_subset) : \A j \in 1..Len(x_vals) :
           \E k \in 1..Len(df) :
             /\ df[k].t = t_vals_subset[i] /\ df[k].x = x_vals[j]
             /\ u_matrix[i][j] = fillna0(to_numeric(df[k].u_numeric))

====
